---- MODULE Spec2Model ----
(***************************************************************************)
(* The DCT NFT create built-in function (dctNFTCreate) of the VM's         *)
(* built-in function container: SetNewGasConfig and ProcessBuiltinFunction *)
(* with the helpers getLatestNonce, saveLatestNonce, getNonceKey,          *)
(* checkDCTNFTCreateBurnAddInput and getAccount.                           *)
(*                                                                         *)
(* Byte slices are sequences of 0..255.  Every number of the code is kept  *)
(* as the big-endian byte string big.Int.Bytes() gives for it (no leading  *)
(* zero byte, the empty string for 0): a *big.Int is such a string of any  *)
(* length, a uint64 is one of at most 8 bytes and a uint32 one of at most  *)
(* 4 bytes, and the fixed-width operations cut their result to that width. *)
(***************************************************************************)
EXTENDS Integers, Sequences, FiniteSets, TLC

(***************************************************************************)
(* Numbers as big-endian byte strings                                      *)
(***************************************************************************)

\* big.Int.SetBytes(b) followed by Bytes(): the leading zero bytes dropped.
RECURSIVE Norm(_)
Norm(b) == IF b = <<>> THEN <<>> ELSE IF Head(b) = 0 THEN Norm(Tail(b)) ELSE b

\* The i-th least significant byte of a (0 beyond its length).
Digit(a, i) == IF i < Len(a) THEN a[Len(a) - i] ELSE 0

MaxOf(m, n) == IF m >= n THEN m ELSE n

\* The byte string of a natural number small enough for the checker.
RECURSIVE NatBytes(_)
NatBytes(n) == IF n = 0 THEN <<>> ELSE Append(NatBytes(n \div 256), n % 256)

RECURSIVE AddFrom(_, _, _, _)
AddFrom(a, b, i, c) ==
    IF i >= MaxOf(Len(a), Len(b))
    THEN NatBytes(c)
    ELSE LET s == Digit(a, i) + Digit(b, i) + c
         IN  Append(AddFrom(a, b, i + 1, s \div 256), s % 256)

\* a + b, exact (arbitrary precision).
AddB(a, b) == Norm(AddFrom(a, b, 0, 0))

RECURSIVE MulFrom(_, _, _, _)
MulFrom(n, a, i, c) ==
    IF i >= Len(a)
    THEN NatBytes(c)
    ELSE LET s == n * Digit(a, i) + c
         IN  Append(MulFrom(n, a, i + 1, s \div 256), s % 256)

\* a * b, exact (arbitrary precision).
RECURSIVE MulB(_, _)
MulB(a, b) ==
    IF a = <<>>
    THEN <<>>
    ELSE AddB(Norm(MulFrom(256, MulB(SubSeq(a, 1, Len(a) - 1), b), 0, 0)),
              Norm(MulFrom(a[Len(a)], b, 0, 0)))

RECURSIVE SubFrom(_, _, _, _)
SubFrom(a, b, i, w) ==
    IF i >= Len(a)
    THEN <<>>
    ELSE LET s == Digit(a, i) - Digit(b, i) - w
         IN  Append(SubFrom(a, b, i + 1, IF s < 0 THEN 1 ELSE 0), (s + 256) % 256)

\* a - b for a >= b, exact.
SubB(a, b) == Norm(SubFrom(a, b, 0, 0))

RECURSIVE CmpSame(_, _)
CmpSame(a, b) ==
    IF a = <<>> THEN 0
    ELSE IF Head(a) < Head(b) THEN -1
    ELSE IF Head(a) > Head(b) THEN 1
    ELSE CmpSame(Tail(a), Tail(b))

\* Cmp: -1, 0 or 1 as a < b, a = b, a > b.
CmpB(a, b) ==
    LET na == Norm(a)
        nb == Norm(b)
    IN  IF Len(na) < Len(nb) THEN -1
        ELSE IF Len(na) > Len(nb) THEN 1
        ELSE CmpSame(na, nb)

\* The value of a modulo 256^k: its k least significant bytes.
Low(a, k) == Norm(IF Len(a) > k THEN SubSeq(a, Len(a) - k + 1, Len(a)) ELSE a)

\* The widths, in bytes, of the code's uint64 and uint32.
U64Bytes == 8
U32Bytes == 4

TwoTo64 == <<1, 0, 0, 0, 0, 0, 0, 0, 0>>
MaxU64 == <<255, 255, 255, 255, 255, 255, 255, 255>>

\* uint64 arithmetic: the exact result cut to 64 bits.
Add64(a, b) == Low(AddB(a, b), U64Bytes)
Mul64(a, b) == Low(MulB(a, b), U64Bytes)
Sub64(a, b) == IF CmpB(a, b) >= 0 THEN SubB(a, b) ELSE SubB(AddB(a, TwoTo64), b)

\* big.Int.Uint64(): the value when it fits 64 bits.  For a larger value
\* the library leaves the result open; the byte strings converted in the
\* runs explored are at most 8 bytes long.
Uint64(b) == Low(b, U64Bytes)
\* uint32(x) of a uint64 x: its low 32 bits.
Uint32(b) == Low(b, U32Bytes)

(***************************************************************************)
(* Constants of the code                                                   *)
(***************************************************************************)

\* core.MaxRoyalty, 10000 = 39 * 256 + 16.
MaxRoyalty == <<39, 16>>
\* The length limit of the quantity argument (value-length-check flag).
maxLenForAddNFTQuantity == 32
\* core.ProtectedKeyPrefix, core.DCTKeyIdentifier and
\* core.DCTNFTLatestNonceIdentifier, one byte standing for each string.
ProtectedKeyPrefix == <<80>>
DCTKeyIdentifier == <<100>>
DCTNFTLatestNonceIdentifier == <<110>>
\* noncePrefix (package variable) and baseDCTKeyPrefix (e.keyPrefix).
noncePrefix == ProtectedKeyPrefix \o DCTNFTLatestNonceIdentifier
keyPrefix == ProtectedKeyPrefix \o DCTKeyIdentifier

\* vm.CallType values.
DirectCall == "DirectCall"
ExecOnDestByCaller == "ExecOnDestByCaller"
\* core.DCTRoleNFTCreate, core.DCTRoleNFTAddQuantity, core.NonFungible,
\* core.BuiltInFunctionDCTNFTCreate, vmcommon.Ok.
DCTRoleNFTCreate == "DCTRoleNFTCreate"
DCTRoleNFTAddQuantity == "DCTRoleNFTAddQuantity"
NonFungible == "NonFungible"
BuiltInFunctionDCTNFTCreate == "DCTNFTCreate"
Ok == "Ok"

\* The errors ProcessBuiltinFunction returns; ErrNone is the nil error.
ErrNone == "nil"
ErrBasicDCTArguments == "ErrBasicDCTArguments"
ErrInvalidRcvAddr == "ErrInvalidRcvAddr"
ErrNilUserAccount == "ErrNilUserAccount"
ErrNotEnoughGas == "ErrNotEnoughGas"
ErrInvalidArguments == "ErrInvalidArguments"
ErrInvalidAddressLength == "ErrInvalidAddressLength"
ErrWrongTypeAssertion == "ErrWrongTypeAssertion"
ErrActionNotAllowed == "ErrActionNotAllowed"
\* The opaque errors of the collaborators.
ErrLoadAccount == "ErrLoadAccount"
ErrRetrieveValue == "ErrRetrieveValue"
ErrSaveToken == "ErrSaveToken"
ErrAddLiquidity == "ErrAddLiquidity"
ErrSaveKeyValue == "ErrSaveKeyValue"
ErrSaveAccount == "ErrSaveAccount"

\* The nil account reference and the nil dct data.
NilAccount == <<>>
NoData ==
    [Type |-> "", Value |-> <<>>, Nonce |-> <<>>, Name |-> <<>>, Creator |-> <<>>,
     Royalties |-> <<>>, Hash |-> <<>>, Attributes |-> <<>>, URIs |-> <<>>]
\* The VMOutput before it is built, and the absent log entry payload.
NoOutput ==
    [ReturnCode |-> "", GasRemaining |-> <<>>, ReturnData |-> <<>>, Logs |-> <<>>]

(***************************************************************************)
(* State                                                                   *)
(***************************************************************************)

VARIABLES
    accountData,    \* per account, its data trie: key -> value
    persisted,      \* per account, the data the accounts adapter last saved
    units,          \* the token storage handler: <<owner, key, nonce>> -> saved unit
    liquidity,      \* the token storage handler: <<key, nonce>> -> global supply
    funcGasCost,    \* e.funcGasCost
    gasConfig,      \* e.gasConfig
    mutExecution,   \* e.mutExecution
    keyPrefixArray,   \* the array behind the slice e.keyPrefix
    noncePrefixArray, \* the array behind the slice noncePrefix
    frames,         \* per caller, its ProcessBuiltinFunction activation
    setter,         \* the SetNewGasConfig activation
    nCalls          \* calls started so far

vars ==
    <<accountData, persisted, units, liquidity, funcGasCost, gasConfig,
      mutExecution, keyPrefixArray, noncePrefixArray, frames, setter, nCalls>>

\* The shared state as one record, as the steps of a call read and write it.
World ==
    [accountData |-> accountData, persisted |-> persisted, units |-> units,
     liquidity |-> liquidity, funcGasCost |-> funcGasCost,
     gasConfig |-> gasConfig, mutExecution |-> mutExecution,
     keyPrefixArray |-> keyPrefixArray, noncePrefixArray |-> noncePrefixArray]

\* A map read: the value under k, or the default.
Lookup(m, k, dflt) == IF k \in DOMAIN m THEN m[k] ELSE dflt
\* A map write.
Store(m, k, v) == [x \in DOMAIN m \cup {k} |-> IF x = k THEN v ELSE m[x]]

(***************************************************************************)
(* An activation of ProcessBuiltinFunction: its parameters, its position   *)
(* and its local variables.  env holds what the collaborators answer       *)
(* during the call: the role grants, which collaborator fails, the flag.   *)
(* ops lists the collaborator calls made so far, pre is the shared data    *)
(* at entry and readBase, readPerByte are the cost-table fields as read.   *)
(***************************************************************************)
IdleFrame ==
    [pc |-> "idle", vmInput |-> <<>>, acntSnd |-> NilAccount, env |-> <<>>,
     err |-> ErrNone, errAt |-> "", accountWithRoles |-> NilAccount,
     uris |-> <<>>, nonce |-> <<>>,
     checkedBase |-> <<>>, readBase |-> <<>>, readPerByte |-> <<>>,
     gasToUse |-> <<>>, royalties |-> <<>>, quantity |-> <<>>, dctTokenKey |-> <<>>,
     keyShared |-> FALSE,
     nextNonce |-> <<>>, dctData |-> NoData, vmOutput |-> NoOutput, ops |-> <<>>,
     pre |-> <<>>]

\* The activation at entry, before line 107.
NewFrame(acntSnd, vmInput, env, w) ==
    [IdleFrame EXCEPT !.pc = "RLock", !.vmInput = vmInput, !.acntSnd = acntSnd,
                      !.env = env,
                      !.pre = [accountData |-> w.accountData, persisted |-> w.persisted,
                               units |-> w.units, liquidity |-> w.liquidity,
                               funcGasCost |-> w.funcGasCost,
                               gasConfig |-> w.gasConfig]]

\* One collaborator call, as the activation's ops records it.
OpRec(name, addr, key, nonce, val, data, flag) ==
    [op |-> name, addr |-> addr, key |-> key, nonce |-> nonce, val |-> val,
     data |-> data, flag |-> flag]

\* An error return that does not run the deferred RUnlock.
Fail_KeepsLock(st, e) == [st EXCEPT !.f.err = e, !.f.errAt = st.f.pc, !.f.pc = "done"]

\* return nil, e: the deferred RUnlock runs next.  errAt names the return
\* statement, as the text the code wraps around the error does.
Fail(st, e) == [st EXCEPT !.f.err = e, !.f.errAt = st.f.pc, !.f.pc = "RUnlock"]

Goto(st, pc) == [st EXCEPT !.f.pc = pc]
Logged(st, rec) == [st EXCEPT !.f.ops = Append(@, rec)]

\* append that shares the array without writing the tail into it.
append_NoWrite(arr, prefixLen, tail) ==
    IF prefixLen + Len(tail) <= Len(arr)
    THEN [shared |-> TRUE, arr |-> arr, bytes |-> SubSeq(arr, 1, prefixLen + Len(tail))]
    ELSE [shared |-> FALSE, arr |-> arr, bytes |-> SubSeq(arr, 1, prefixLen) \o tail]

\* append(s, tail...) for a slice s of prefixLen bytes over the array arr:
\* when the array has room the tail is written into it after the slice and
\* the result shares the array, otherwise the result is a new array.
append(arr, prefixLen, tail) ==
    IF prefixLen + Len(tail) <= Len(arr)
    THEN [shared |-> TRUE,
          arr |-> [i \in 1..Len(arr) |->
                     IF i > prefixLen /\ i <= prefixLen + Len(tail)
                     THEN tail[i - prefixLen] ELSE arr[i]],
          bytes |-> SubSeq(arr, 1, prefixLen) \o tail]
    ELSE [shared |-> FALSE, arr |-> arr, bytes |-> SubSeq(arr, 1, prefixLen) \o tail]

\* getNonceKey, lines 294-296: the key it returns ...
getNonceKey(tokenID) == noncePrefix \o tokenID
\* ... and its append on the array behind noncePrefix.
getNonceKeyIn(w, tokenID) == append(w.noncePrefixArray, Len(noncePrefix), tokenID)

\* checkBasicDCTArguments (line 278): its verdict is an input of the call.
checkBasicDCTArguments(vmInput) ==
    IF vmInput.basicOk THEN ErrNone ELSE ErrBasicDCTArguments

\* checkDCTNFTCreateBurnAddInput with the gas check first.
checkDCTNFTCreateBurnAddInput_GasFirst(account, vmInput, baseCost) ==
    IF checkBasicDCTArguments(vmInput) # ErrNone THEN checkBasicDCTArguments(vmInput)
    ELSE IF CmpB(vmInput.GasProvided, baseCost) < 0 THEN ErrNotEnoughGas
    ELSE IF vmInput.CallerAddr # vmInput.RecipientAddr THEN ErrInvalidRcvAddr
    ELSE IF account = NilAccount /\ vmInput.CallType # ExecOnDestByCaller
         THEN ErrNilUserAccount
    ELSE ErrNone

\* checkDCTNFTCreateBurnAddInput, lines 273-292.
checkDCTNFTCreateBurnAddInput(account, vmInput, baseCost) ==
    IF checkBasicDCTArguments(vmInput) # ErrNone THEN checkBasicDCTArguments(vmInput)
    ELSE IF vmInput.CallerAddr # vmInput.RecipientAddr THEN ErrInvalidRcvAddr
    ELSE IF account = NilAccount /\ vmInput.CallType # ExecOnDestByCaller
         THEN ErrNilUserAccount
    ELSE IF CmpB(vmInput.GasProvided, baseCost) < 0 THEN ErrNotEnoughGas
    ELSE ErrNone

\* rolesHandler.CheckAllowedToExecute(account, tokenID, role): the grants the
\* roles handler holds during the call are env.roleGrants.
CheckAllowedToExecute(env, account, tokenID, role) ==
    IF <<account, tokenID, role>> \in env.roleGrants THEN ErrNone ELSE ErrActionNotAllowed

\* Line 107: e.mutExecution.RLock().
StepRLock(st) ==
    Goto([st EXCEPT !.w.mutExecution.readers = @ + 1], "checkInput")

\* Lines 110-113.
StepCheckInput(st) ==
    LET e == checkDCTNFTCreateBurnAddInput(st.f.acntSnd, st.f.vmInput, st.w.funcGasCost)
        s1 == [st EXCEPT !.f.checkedBase = st.w.funcGasCost]
    IN  IF e # ErrNone THEN Fail(s1, e) ELSE Goto(s1, "argCount")

\* StepArgCount with the minimum one lower.
StepArgCount_OneFewer(st) ==
    LET minNumOfArgs == IF st.f.vmInput.CallType = ExecOnDestByCaller THEN 7 ELSE 6
    IN  IF Len(st.f.vmInput.Arguments) < minNumOfArgs
        THEN Fail(st, ErrInvalidArguments)
        ELSE Goto(st, "resolve")

\* Lines 115-122.
StepArgCount(st) ==
    LET minNumOfArgs == IF st.f.vmInput.CallType = ExecOnDestByCaller THEN 8 ELSE 7
    IN  IF Len(st.f.vmInput.Arguments) < minNumOfArgs
        THEN Fail(st, ErrInvalidArguments)
        ELSE Goto(st, "resolve")

\* getAccount, lines 236-248: accounts.LoadAccount and the type assertion.
getAccount(st, address) ==
    LET s1 == Logged(st, OpRec("LoadAccount", address, <<>>, <<>>, <<>>, NoData, FALSE))
    IN  IF st.f.env.fault = "LoadAccount" THEN Fail(s1, ErrLoadAccount)
        ELSE IF st.f.env.fault = "WrongType" THEN Fail(s1, ErrWrongTypeAssertion)
        ELSE [s1 EXCEPT !.f.accountWithRoles = address]

\* StepResolve with the target account loaded before its address is checked.
StepResolve_LoadsFirst(st) ==
    LET in == st.f.vmInput
        lenArgs == Len(in.Arguments)
    IN  IF in.CallType = ExecOnDestByCaller
        THEN LET scAddressWithRoles == in.Arguments[lenArgs]
                 s1 == [st EXCEPT !.f.uris = SubSeq(in.Arguments, 7, lenArgs - 1)]
                 s2 == getAccount(s1, scAddressWithRoles)
             IN  IF s2.f.err # ErrNone THEN s2
                 ELSE IF Len(scAddressWithRoles) # Len(in.CallerAddr)
                 THEN Fail(s2, ErrInvalidAddressLength)
                 ELSE IF scAddressWithRoles = in.CallerAddr
                 THEN Fail(s2, ErrInvalidRcvAddr)
                 ELSE Goto(s2, "createRole")
        ELSE Goto([st EXCEPT !.f.accountWithRoles = st.f.acntSnd,
                             !.f.uris = SubSeq(in.Arguments, 7, lenArgs)],
                  "createRole")

\* Lines 124-141.
StepResolve(st) ==
    LET in == st.f.vmInput
        lenArgs == Len(in.Arguments)
    IN  IF in.CallType = ExecOnDestByCaller
        THEN LET scAddressWithRoles == in.Arguments[lenArgs]
                 s1 == [st EXCEPT !.f.uris = SubSeq(in.Arguments, 7, lenArgs - 1)]
             IN  IF Len(scAddressWithRoles) # Len(in.CallerAddr)
                 THEN Fail(s1, ErrInvalidAddressLength)
                 ELSE IF scAddressWithRoles = in.CallerAddr
                 THEN Fail(s1, ErrInvalidRcvAddr)
                 ELSE LET s2 == getAccount(s1, scAddressWithRoles)
                      IN  IF s2.f.err # ErrNone THEN s2 ELSE Goto(s2, "createRole")
        ELSE Goto([st EXCEPT !.f.accountWithRoles = st.f.acntSnd,
                             !.f.uris = SubSeq(in.Arguments, 7, lenArgs)],
                  "createRole")

\* Lines 143-147.
StepCreateRole(st) ==
    LET tokenID == st.f.vmInput.Arguments[1]
        s1 == Logged(st, OpRec("CheckAllowedToExecute", st.f.accountWithRoles, tokenID,
                               <<>>, <<>>, NoData, FALSE))
        e == CheckAllowedToExecute(st.f.env, st.f.accountWithRoles, tokenID, DCTRoleNFTCreate)
    IN  IF e # ErrNone THEN Fail(s1, e) ELSE Goto(s1, "getNonce")

\* getLatestNonce, lines 250-262, on the shared state w.
getLatestNonce(w, acnt, tokenID) ==
    Uint64(Norm(Lookup(w.accountData[acnt], getNonceKey(tokenID), <<>>)))
\* The same with the key as getNonceKey built it on the array.
getLatestNonceAt(w, acnt, nonceKey) ==
    Uint64(Norm(Lookup(w.accountData[acnt], nonceKey, <<>>)))

\* StepGetNonce with the next nonce written as soon as the latest is read.
StepGetNonce_ReservesNonce(st) ==
    LET tokenID == st.f.vmInput.Arguments[1]
        acnt == st.f.accountWithRoles
        nonceKey == getNonceKeyIn(st.w, tokenID)
        s1 == Logged([st EXCEPT !.w.noncePrefixArray = nonceKey.arr],
                     OpRec("RetrieveValue", acnt, nonceKey.bytes, <<>>, <<>>,
                           NoData, FALSE))
        nonce == getLatestNonceAt(st.w, acnt, nonceKey.bytes)
    IN  IF st.f.env.fault = "RetrieveValue"
        THEN Fail(s1, ErrRetrieveValue)
        ELSE Goto([s1 EXCEPT !.f.nonce = nonce,
                             !.w.accountData[acnt] =
                                 Store(@, nonceKey.bytes, Add64(nonce, <<1>>))],
                  "gas")

\* Lines 149-152.
StepGetNonce(st) ==
    LET tokenID == st.f.vmInput.Arguments[1]
        nonceKey == getNonceKeyIn(st.w, tokenID)
        s1 == Logged([st EXCEPT !.w.noncePrefixArray = nonceKey.arr],
                     OpRec("RetrieveValue", st.f.accountWithRoles,
                           nonceKey.bytes, <<>>, <<>>, NoData, FALSE))
    IN  IF st.f.env.fault = "RetrieveValue"
        THEN Fail(s1, ErrRetrieveValue)
        ELSE Goto([s1 EXCEPT !.f.nonce =
                       getLatestNonceAt(st.w, st.f.accountWithRoles, nonceKey.bytes)],
                  "gas")

\* Lines 154-157: the sum of the arguments' lengths.
RECURSIVE TotalLength(_)
TotalLength(args) ==
    IF args = <<>> THEN <<>> ELSE Add64(TotalLength(Tail(args)), NatBytes(Len(Head(args))))

\* Line 158: totalLength*e.gasConfig.StorePerByte + e.funcGasCost, in uint64.
GasToUse(args, storePerByte, baseCost) ==
    Add64(Mul64(TotalLength(args), storePerByte), baseCost)

\* StepGas without the comparison of the gas provided with gasToUse.
StepGas_NoCheck(st) ==
    LET gasToUse == GasToUse(st.f.vmInput.Arguments, st.w.gasConfig.StorePerByte,
                             st.w.funcGasCost)
    IN  Goto([st EXCEPT !.f.gasToUse = gasToUse,
                        !.f.readBase = st.w.funcGasCost,
                        !.f.readPerByte = st.w.gasConfig.StorePerByte],
             "royalties")

\* Lines 154-161.
StepGas(st) ==
    LET gasToUse == GasToUse(st.f.vmInput.Arguments, st.w.gasConfig.StorePerByte,
                             st.w.funcGasCost)
        s1 == [st EXCEPT !.f.gasToUse = gasToUse,
                         !.f.readBase = st.w.funcGasCost,
                         !.f.readPerByte = st.w.gasConfig.StorePerByte]
    IN  IF CmpB(st.f.vmInput.GasProvided, gasToUse) < 0
        THEN Fail(s1, ErrNotEnoughGas)
        ELSE Goto(s1, "royalties")

\* Line 163: uint32(big.NewInt(0).SetBytes(arg).Uint64()).
ParseRoyalties(arg) == Uint32(Uint64(Norm(arg)))

\* StepRoyalties without the comparison with MaxRoyalty.
StepRoyalties_NoLimit(st) ==
    Goto([st EXCEPT !.f.royalties = ParseRoyalties(st.f.vmInput.Arguments[4])], "quantity")

\* Lines 163-166.
StepRoyalties(st) ==
    LET royalties == ParseRoyalties(st.f.vmInput.Arguments[4])
        s1 == [st EXCEPT !.f.royalties = royalties]
    IN  IF CmpB(royalties, MaxRoyalty) > 0
        THEN Fail(s1, ErrInvalidArguments)
        ELSE Goto(s1, "quantity")

\* Lines 168-172.
StepQuantity(st) ==
    LET quantity == Norm(st.f.vmInput.Arguments[2])
        dctTokenKey == append(st.w.keyPrefixArray, Len(keyPrefix),
                              st.f.vmInput.Arguments[1])
        s1 == [st EXCEPT !.w.keyPrefixArray = dctTokenKey.arr,
                         !.f.dctTokenKey = dctTokenKey.bytes,
                         !.f.keyShared = dctTokenKey.shared,
                         !.f.quantity = quantity]
    IN  IF CmpB(quantity, <<>>) <= 0
        THEN Fail(s1, ErrInvalidArguments)
        ELSE Goto(s1, "addQuantityRole")

\* The bytes of the slice dctTokenKey when it is read: those of the array
\* behind e.keyPrefix when the slice shares it, its own otherwise.
KeyBytes(st) ==
    IF st.f.keyShared
    THEN SubSeq(st.w.keyPrefixArray, 1, Len(st.f.dctTokenKey))
    ELSE st.f.dctTokenKey

\* StepAddQuantityRole without the role check.
StepAddQuantityRole_NoCheck(st) == Goto(st, "lengthCheck")

\* Lines 173-178.
StepAddQuantityRole(st) ==
    IF CmpB(st.f.quantity, <<1>>) > 0
    THEN LET tokenID == st.f.vmInput.Arguments[1]
             s1 == Logged(st, OpRec("CheckAllowedToExecute", st.f.accountWithRoles,
                                    tokenID, <<>>, <<>>, NoData, TRUE))
             e == CheckAllowedToExecute(st.f.env, st.f.accountWithRoles, tokenID,
                                        DCTRoleNFTAddQuantity)
         IN  IF e # ErrNone THEN Fail(s1, e) ELSE Goto(s1, "lengthCheck")
    ELSE Goto(st, "lengthCheck")

\* Lines 179-182.
StepLengthCheck(st) ==
    LET isValueLengthCheckFlagEnabled == st.f.env.lengthCheck
    IN  IF /\ isValueLengthCheckFlagEnabled
           /\ Len(st.f.vmInput.Arguments[2]) > maxLenForAddNFTQuantity
        THEN Fail(st, ErrInvalidArguments)
        ELSE Goto(st, "build")

\* Lines 184-197.
StepBuild(st) ==
    LET in == st.f.vmInput
        nextNonce == Add64(st.f.nonce, <<1>>)
        dctData ==
            [Type |-> NonFungible, Value |-> st.f.quantity, Nonce |-> nextNonce,
             Name |-> in.Arguments[3], Creator |-> in.CallerAddr,
             Royalties |-> st.f.royalties, Hash |-> in.Arguments[5],
             Attributes |-> in.Arguments[6], URIs |-> st.f.uris]
    IN  Goto([st EXCEPT !.f.nextNonce = nextNonce, !.f.dctData = dctData], "saveToken")

\* Lines 199-202: dctStorageHandler.SaveDCTNFTToken(..., true, ReturnCallAfterError).
StepSaveToken(st) ==
    LET f == st.f
        key == KeyBytes(st)
        s1 == Logged(st, OpRec("SaveDCTNFTToken", f.accountWithRoles, key,
                               f.nextNonce, f.dctData.Value, f.dctData, TRUE))
    IN  IF f.env.fault = "SaveDCTNFTToken"
        THEN Fail(s1, ErrSaveToken)
        ELSE Goto([s1 EXCEPT !.w.units =
                       Store(@, <<f.accountWithRoles, key, f.nextNonce>>,
                             [data |-> f.dctData, isCreation |-> TRUE,
                              returnCallAfterError |-> f.vmInput.ReturnCallAfterError])],
                  "addLiquidity")

\* StepAddLiquidity undoing the saved unit when the liquidity update fails.
StepAddLiquidity_UndoesUnit(st) ==
    LET f == st.f
        key == KeyBytes(st)
        s1 == Logged(st, OpRec("AddToLiquiditySystemAcc", <<>>, key,
                               f.nextNonce, f.quantity, NoData, FALSE))
    IN  IF f.env.fault = "AddToLiquiditySystemAcc"
        THEN Fail([s1 EXCEPT !.w.units = f.pre.units], ErrAddLiquidity)
        ELSE Goto([s1 EXCEPT !.w.liquidity =
                       Store(@, <<key, f.nextNonce>>,
                             AddB(Lookup(@, <<key, f.nextNonce>>, <<>>),
                                  f.quantity))],
                  "saveNonce")

\* Lines 203-206: dctStorageHandler.AddToLiquiditySystemAcc.
StepAddLiquidity(st) ==
    LET f == st.f
        key == KeyBytes(st)
        s1 == Logged(st, OpRec("AddToLiquiditySystemAcc", <<>>, key,
                               f.nextNonce, f.quantity, NoData, FALSE))
    IN  IF f.env.fault = "AddToLiquiditySystemAcc"
        THEN Fail(s1, ErrAddLiquidity)
        ELSE Goto([s1 EXCEPT !.w.liquidity =
                       Store(@, <<key, f.nextNonce>>,
                             AddB(Lookup(@, <<key, f.nextNonce>>, <<>>),
                                  f.quantity))],
                  "saveNonce")

\* saveLatestNonce, lines 264-267, and lines 208-211.
StepSaveNonce(st) ==
    LET f == st.f
        nonceKey == getNonceKeyIn(st.w, f.vmInput.Arguments[1])
        s1 == Logged([st EXCEPT !.w.noncePrefixArray = nonceKey.arr],
                     OpRec("SaveKeyValue", f.accountWithRoles, nonceKey.bytes, <<>>,
                           Norm(f.nextNonce), NoData, FALSE))
    IN  IF f.env.fault = "SaveKeyValue"
        THEN Fail(s1, ErrSaveKeyValue)
        ELSE Goto([s1 EXCEPT !.w.accountData[f.accountWithRoles] =
                       Store(@, nonceKey.bytes, Norm(f.nextNonce))],
                  "saveAccount")

\* StepSaveAccount saving the account whatever the call type.
StepSaveAccount_AnyCallType(st) ==
    LET f == st.f
        s1 == Logged(st, OpRec("SaveAccount", f.accountWithRoles, <<>>, <<>>, <<>>,
                               NoData, FALSE))
    IN  IF f.env.fault = "SaveAccount"
        THEN Fail(s1, ErrSaveAccount)
        ELSE Goto([s1 EXCEPT !.w.persisted[f.accountWithRoles] =
                       st.w.accountData[f.accountWithRoles]],
                  "output")

\* Lines 213-218: e.accounts.SaveAccount in ExecOnDestByCaller only.
StepSaveAccount(st) ==
    LET f == st.f
    IN  IF f.vmInput.CallType = ExecOnDestByCaller
        THEN LET s1 == Logged(st, OpRec("SaveAccount", f.accountWithRoles, <<>>, <<>>,
                                        <<>>, NoData, FALSE))
             IN  IF f.env.fault = "SaveAccount"
                 THEN Fail(s1, ErrSaveAccount)
                 ELSE Goto([s1 EXCEPT !.w.persisted[f.accountWithRoles] =
                                st.w.accountData[f.accountWithRoles]],
                           "output")
        ELSE Goto(st, "output")

\* marshaller.Marshal(dctData), line 226: the bytes, or nil when it fails.
Marshal(env, dctData) ==
    IF env.fault = "Marshal" THEN <<>> ELSE <<dctData>>

\* addDCTEntryInVMOutput, line 231: one log entry appended to the output.
addDCTEntryInVMOutput(vmOutput, identifier, tokenID, nonce, value, caller, dctDataBytes) ==
    [vmOutput EXCEPT !.Logs =
        Append(@, [Identifier |-> identifier, Address |-> caller,
                   Topics |-> <<tokenID, Norm(nonce), value, caller>>,
                   Data |-> dctDataBytes])]

\* StepOutput returning the marshaller's error.
StepOutput_MarshalFatal(st) ==
    LET s1 == Logged(st, OpRec("Marshal", <<>>, <<>>, <<>>, <<>>, st.f.dctData, FALSE))
    IN  IF st.f.env.fault = "Marshal"
        THEN Fail(s1, "marshal error")
        ELSE Goto([s1 EXCEPT !.f.vmOutput =
                      addDCTEntryInVMOutput(
                          [ReturnCode |-> Ok,
                           GasRemaining |-> Sub64(st.f.vmInput.GasProvided, st.f.gasToUse),
                           ReturnData |-> <<Norm(st.f.nextNonce)>>, Logs |-> <<>>],
                          BuiltInFunctionDCTNFTCreate, st.f.vmInput.Arguments[1],
                          st.f.nextNonce, st.f.quantity, st.f.vmInput.CallerAddr,
                          Marshal(st.f.env, st.f.dctData))],
                  "RUnlock")

\* Lines 220-233.
StepOutput(st) ==
    LET f == st.f
        vmOutput ==
            [ReturnCode |-> Ok,
             GasRemaining |-> Sub64(f.vmInput.GasProvided, f.gasToUse),
             ReturnData |-> <<Norm(f.nextNonce)>>,
             Logs |-> <<>>]
        s1 == Logged(st, OpRec("Marshal", <<>>, <<>>, <<>>, <<>>, f.dctData, FALSE))
    IN  Goto([s1 EXCEPT !.f.vmOutput =
                  addDCTEntryInVMOutput(vmOutput, BuiltInFunctionDCTNFTCreate,
                                        f.vmInput.Arguments[1], f.nextNonce,
                                        f.quantity, f.vmInput.CallerAddr,
                                        Marshal(f.env, f.dctData))],
             "RUnlock")

\* Line 108: the deferred e.mutExecution.RUnlock().
StepRUnlock(st) ==
    Goto([st EXCEPT !.w.mutExecution.readers = @ - 1], "done")

\* One step of an activation, by its position.
StepFn(st) ==
    CASE st.f.pc = "RLock" -> StepRLock(st)
      [] st.f.pc = "checkInput" -> StepCheckInput(st)
      [] st.f.pc = "argCount" -> StepArgCount(st)
      [] st.f.pc = "resolve" -> StepResolve(st)
      [] st.f.pc = "createRole" -> StepCreateRole(st)
      [] st.f.pc = "getNonce" -> StepGetNonce(st)
      [] st.f.pc = "gas" -> StepGas(st)
      [] st.f.pc = "royalties" -> StepRoyalties(st)
      [] st.f.pc = "quantity" -> StepQuantity(st)
      [] st.f.pc = "addQuantityRole" -> StepAddQuantityRole(st)
      [] st.f.pc = "lengthCheck" -> StepLengthCheck(st)
      [] st.f.pc = "build" -> StepBuild(st)
      [] st.f.pc = "saveToken" -> StepSaveToken(st)
      [] st.f.pc = "addLiquidity" -> StepAddLiquidity(st)
      [] st.f.pc = "saveNonce" -> StepSaveNonce(st)
      [] st.f.pc = "saveAccount" -> StepSaveAccount(st)
      [] st.f.pc = "output" -> StepOutput(st)
      [] st.f.pc = "RUnlock" -> StepRUnlock(st)

\* RLock blocks while a writer holds the lock or waits for it.
CanStep(st) ==
    st.f.pc = "RLock" => (~st.w.mutExecution.writer /\ ~st.w.mutExecution.writerWaiting)

\* ProcessBuiltinFunction run from its position to its return.
RECURSIVE RunToReturn(_)
RunToReturn(st) == IF st.f.pc = "done" THEN st ELSE RunToReturn(StepFn(st))

(***************************************************************************)
(* SetNewGasConfig, lines 83-92.  gasCost is the *vmcommon.GasCost passed: *)
(* NilGasCost, or a record of BuiltInCost.DCTNFTCreate and                 *)
(* BaseOperationCost.StorePerByte.                                         *)
(***************************************************************************)
NilGasCost == [isNil |-> TRUE, DCTNFTCreate |-> <<>>, StorePerByte |-> <<>>]
GasCost(base, perByte) == [isNil |-> FALSE, DCTNFTCreate |-> base, StorePerByte |-> perByte]

IdleSetter == [pc |-> "idle", gasCost |-> NilGasCost, runs |-> 0]

\* SetStepNilCheck without the nil check.
SetStepNilCheck_NoCheck(st) == [st EXCEPT !.s.pc = "Lock"]

\* Lines 84-86.
SetStepNilCheck(st) ==
    IF st.s.gasCost.isNil THEN [st EXCEPT !.s.pc = "done"] ELSE [st EXCEPT !.s.pc = "Lock"]

\* Line 88, e.mutExecution.Lock(): the writer first announces itself ...
SetStepLock(st) == [st EXCEPT !.w.mutExecution.writerWaiting = TRUE, !.s.pc = "LockWait"]

\* ... and then waits for the readers to leave.
SetStepLockWait(st) ==
    [st EXCEPT !.w.mutExecution.writerWaiting = FALSE, !.w.mutExecution.writer = TRUE,
               !.s.pc = "setFuncGasCost"]

\* Line 89.
SetStepFuncGasCost(st) ==
    [st EXCEPT !.w.funcGasCost = st.s.gasCost.DCTNFTCreate, !.s.pc = "setGasConfig"]

\* Line 90.
SetStepGasConfig(st) ==
    [st EXCEPT !.w.gasConfig = [StorePerByte |-> st.s.gasCost.StorePerByte],
               !.s.pc = "Unlock"]

\* Line 91.
SetStepUnlock(st) == [st EXCEPT !.w.mutExecution.writer = FALSE, !.s.pc = "done"]

SetStepFn(st) ==
    CASE st.s.pc = "nilCheck" -> SetStepNilCheck(st)
      [] st.s.pc = "Lock" -> SetStepLock(st)
      [] st.s.pc = "LockWait" -> SetStepLockWait(st)
      [] st.s.pc = "setFuncGasCost" -> SetStepFuncGasCost(st)
      [] st.s.pc = "setGasConfig" -> SetStepGasConfig(st)
      [] st.s.pc = "Unlock" -> SetStepUnlock(st)

\* Lock that does not wait for the readers.
SetCanStep_NoWait(st) == TRUE

\* Lock blocks while readers hold the lock.
SetCanStep(st) == st.s.pc = "LockWait" => st.w.mutExecution.readers = 0

RECURSIVE SetRunToReturn(_)
SetRunToReturn(st) == IF st.s.pc = "done" THEN st ELSE SetRunToReturn(SetStepFn(st))

(***************************************************************************)
(* The calls explored                                                      *)
(***************************************************************************)

\* Two accounts, and a byte string too short to be an address.
AddrA == <<1, 1>>
AddrB == <<2, 2>>
AddrShort == <<3>>
Accounts == {AddrA, AddrB}
Other(a) == IF a = AddrA THEN AddrB ELSE AddrA

\* Token identifiers and the arguments 2, 4, 5 and one URI.
TokT == <<84>>
TokU == <<85>>
Tokens == {TokT, TokU}
NameArg == <<78>>
HashArg == <<72>>
AttrArg == <<65>>
Uri == <<117>>

\* A quantity argument one byte longer than maxLenForAddNFTQuantity.
LongQuantity == <<1>> \o [i \in 1..maxLenForAddNFTQuantity |-> 0]

\* Cost tables: two ordinary ones, and one whose per-byte cost is 2^63.
TableA == GasCost(<<10>>, <<1>>)
TableB == GasCost(<<20>>, <<3>>)
TableHuge == GasCost(<<10>>, <<128, 0, 0, 0, 0, 0, 0, 0>>)

\* The role grants a scenario gives, by kind.
RolesFor(kind, caller, token) ==
    LET both == {DCTRoleNFTCreate, DCTRoleNFTAddQuantity}
    IN  CASE kind = "none" -> {}
          [] kind = "create" -> Accounts \X Tokens \X {DCTRoleNFTCreate}
          [] kind = "addOnly" -> Accounts \X Tokens \X {DCTRoleNFTAddQuantity}
          [] kind = "both" -> Accounts \X Tokens \X both
          [] kind = "callerOnly" -> {caller} \X Tokens \X both
          [] kind = "othersOnly" -> (Accounts \ {caller}) \X Tokens \X both
          [] kind = "otherToken" -> Accounts \X (Tokens \ {token}) \X both

\* A scenario names the caller, the arguments and the collaborators' answers.
ArgsOf(sc) == <<sc.token, sc.qty, NameArg, sc.roy, HashArg, AttrArg>> \o sc.tail
AcntSndOf(sc) == IF sc.hasAcnt THEN sc.caller ELSE NilAccount
EnvOf(sc) ==
    [fault |-> sc.fault, lengthCheck |-> sc.lengthCheck,
     roleGrants |-> RolesFor(sc.roles, sc.caller, sc.token)]
InputOf(sc, gas) ==
    [CallerAddr |-> sc.caller, RecipientAddr |-> sc.recipient, CallType |-> sc.callType,
     Arguments |-> ArgsOf(sc), GasProvided |-> gas, ReturnCallAfterError |-> FALSE,
     basicOk |-> sc.basicOk]

\* The sum of the arguments' lengths and the exact cost of a call, computed
\* without any width.
RECURSIVE SumLen(_)
SumLen(args) == IF args = <<>> THEN 0 ELSE Len(Head(args)) + SumLen(Tail(args))
ExactCost(args, perByte, base) == AddB(MulB(NatBytes(SumLen(args)), perByte), base)
FitsU64(x) == Len(Norm(x)) <= U64Bytes

\* The gas a scenario provides, by kind, under the cost table in force.
GasFor(kind, args, perByte, base) ==
    LET exact == ExactCost(args, perByte, base)
        all == CASE kind = "belowBase" -> IF base = <<>> THEN {} ELSE {SubB(base, <<1>>)}
                 [] kind = "base" -> {base}
                 [] kind = "oneLess" -> IF exact = <<>> THEN {} ELSE {SubB(exact, <<1>>)}
                 [] kind = "exact" -> {exact}
                 [] kind = "ample" -> {AddB(exact, <<5>>)}
                 [] kind = "plenty" -> {AddB(exact, <<100>>)}
    IN  {g \in all : FitsU64(g)}

\* A valid call of the given mode by the given caller.
BaseScenario(callType, caller) ==
    [caller |-> caller, recipient |-> caller, hasAcnt |-> TRUE, basicOk |-> TRUE,
     callType |-> callType, token |-> TokT, qty |-> <<1>>, roy |-> <<>>,
     tail |-> IF callType = ExecOnDestByCaller THEN <<Uri, Other(caller)>> ELSE <<Uri>>,
     gasKind |-> "exact", fault |-> "none", lengthCheck |-> TRUE, roles |-> "both"]

\* The scenarios that differ from b in one respect, and those of quantity 2
\* that lack the add-quantity grant.
Quantities == {<<>>, <<0>>, <<2>>, LongQuantity}
RoyaltyArgs == {<<39, 16>>, <<39, 17>>}
Tails(caller) ==
    {<<>>, <<Uri>>, <<Uri, Uri>>, <<Uri, Other(caller)>>, <<Uri, caller>>,
     <<Uri, AddrShort>>}
GasKinds == {"belowBase", "oneLess", "ample"}
Faults ==
    {"LoadAccount", "WrongType", "RetrieveValue", "SaveDCTNFTToken",
     "AddToLiquiditySystemAcc", "SaveKeyValue", "SaveAccount", "Marshal"}
RoleKinds == {"none", "create", "addOnly", "callerOnly", "othersOnly", "otherToken"}
\* The grants tried with a quantity above 1.
QuantityRoleKinds == {"create", "othersOnly"}

Vary(b) ==
    {b, [b EXCEPT !.recipient = Other(b.caller)], [b EXCEPT !.hasAcnt = FALSE],
     [b EXCEPT !.basicOk = FALSE], [b EXCEPT !.token = TokU],
     [b EXCEPT !.lengthCheck = FALSE]}
    \cup {[b EXCEPT !.qty = q] : q \in Quantities}
    \cup {[b EXCEPT !.roy = r] : r \in RoyaltyArgs}
    \cup {[b EXCEPT !.tail = t] : t \in Tails(b.caller)}
    \cup {[b EXCEPT !.gasKind = g] : g \in GasKinds}
    \cup {[b EXCEPT !.fault = x] : x \in Faults}
    \cup {[b EXCEPT !.roles = r] : r \in RoleKinds}
    \cup {[b EXCEPT !.qty = <<2>>, !.roles = r] : r \in QuantityRoleKinds}

\* The calls of the sequential specification: the valid call of each mode
\* and every call one change away from it.
Scenarios == UNION {Vary(BaseScenario(ct, AddrA)) : ct \in {DirectCall, ExecOnDestByCaller}}

(***************************************************************************)
(* Initial state and actions                                               *)
(***************************************************************************)

EmptyMap == [x \in {} |-> <<>>]
\* The data of an account whose latest nonce of every token is n (0: unset).
DataWithNonce(n) ==
    IF n = <<>> THEN EmptyMap ELSE [k \in {getNonceKey(t) : t \in Tokens} |-> n]

\* The latest nonces the explored runs start from: unset, and 2^64 - 2.
InitialNonces == {<<>>}

Procs == {1, 2}

\* The spare room the conversion []byte(string) may leave behind the bytes
\* of a prefix: none, or MaxSpare bytes.
MaxSpare == 1
Spares == {0, MaxSpare}
ArrayOf(prefix, spare) == prefix \o [i \in 1..spare |-> 0]

\* The arrays behind e.keyPrefix (line 67) and noncePrefix (line 19).
InitArrays(spares) ==
    /\ \E k \in spares : keyPrefixArray = ArrayOf(keyPrefix, k)
    /\ \E k \in spares : noncePrefixArray = ArrayOf(noncePrefix, k)

\* The handler after NewDCTNFTCreateFunc over the given stored nonces and
\* cost tables, with the given spare room in the arrays.
InitOver(nonces, tables, spares) ==
    /\ InitArrays(spares)
    /\ \E n \in nonces :
          /\ accountData = [a \in Accounts |-> DataWithNonce(n)]
          /\ persisted = [a \in Accounts |-> DataWithNonce(n)]
    /\ units = EmptyMap
    /\ liquidity = EmptyMap
    /\ \E t \in tables :
          /\ funcGasCost = t.DCTNFTCreate
          /\ gasConfig = [StorePerByte |-> t.StorePerByte]
    /\ mutExecution = [readers |-> 0, writer |-> FALSE, writerWaiting |-> FALSE]
    /\ frames = [p \in Procs |-> IdleFrame]
    /\ setter = IdleSetter
    /\ nCalls = 0

\* The same with arrays of exactly the prefixes' lengths: every append then
\* makes a new array.
InitWith(nonces, tables) == InitOver(nonces, tables, {0})

\* The shared state becomes w.
SetWorld(w) ==
    /\ accountData' = w.accountData
    /\ persisted' = w.persisted
    /\ units' = w.units
    /\ liquidity' = w.liquidity
    /\ funcGasCost' = w.funcGasCost
    /\ gasConfig' = w.gasConfig
    /\ mutExecution' = w.mutExecution
    /\ keyPrefixArray' = w.keyPrefixArray
    /\ noncePrefixArray' = w.noncePrefixArray

\* ProcessBuiltinFunction(acntSnd, _, vmInput), lines 103-234, run by p from
\* entry to return with nothing else running.
ProcessBuiltinFunction(p, acntSnd, vmInput, env) ==
    /\ frames[p].pc \in {"idle", "done"}
    /\ setter.pc \in {"idle", "done"}
    /\ LET st == RunToReturn([f |-> NewFrame(acntSnd, vmInput, env, World), w |-> World])
       IN  /\ frames' = [frames EXCEPT ![p] = st.f]
           /\ SetWorld(st.w)
    /\ nCalls' = nCalls + 1
    /\ UNCHANGED setter

\* SetNewGasConfig(gasCost), lines 83-92, run from entry to return with
\* nothing else running.
SetNewGasConfig(gasCost) ==
    /\ \A p \in Procs : frames[p].pc \in {"idle", "done"}
    /\ LET st == SetRunToReturn([s |-> [setter EXCEPT !.pc = "nilCheck",
                                                      !.gasCost = gasCost],
                                 w |-> World])
       IN  SetWorld(st.w)
    /\ UNCHANGED <<frames, setter, nCalls>>

\* A call of scenario sc by p, with the gas its kind gives under the cost
\* table in force.
Call(p, sc) ==
    \E gas \in GasFor(sc.gasKind, ArgsOf(sc), gasConfig.StorePerByte, funcGasCost) :
        ProcessBuiltinFunction(p, AcntSndOf(sc), InputOf(sc, gas), EnvOf(sc))

\* The calls one run makes.
MaxCalls == 2

Init == InitWith(InitialNonces, {TableA})

Next ==
    \/ /\ nCalls < MaxCalls
       /\ \E sc \in Scenarios : Call(1, sc)
    \/ \E gc \in {NilGasCost, TableB} : SetNewGasConfig(gc)

Spec == Init /\ [][Next]_vars

(***************************************************************************)
(* Sequential runs that start from a latest nonce anywhere in its range.   *)
(***************************************************************************)
WideNonces == {<<>>, <<255>>, SubB(MaxU64, <<1>>)}

NonceScenarios ==
    LET d == BaseScenario(DirectCall, AddrA)
        e == BaseScenario(ExecOnDestByCaller, AddrA)
    IN  {d, e, [d EXCEPT !.token = TokU], [d EXCEPT !.qty = <<>>],
         [d EXCEPT !.roles = "none"], [d EXCEPT !.fault = "RetrieveValue"],
         [d EXCEPT !.fault = "SaveKeyValue"],
         [e EXCEPT !.fault = "AddToLiquiditySystemAcc"]}

MaxNonceCalls == 3

NonceInit == InitWith(WideNonces, {TableA})

NonceNext ==
    /\ nCalls < MaxNonceCalls
    /\ \E sc \in NonceScenarios : Call(1, sc)

SpecNonce == NonceInit /\ [][NonceNext]_vars

(***************************************************************************)
(* Sequential runs over the gas provided, the arguments' total length and  *)
(* the cost table in force.                                                *)
(***************************************************************************)
AllGasKinds == {"belowBase", "base", "oneLess", "exact", "ample"}

GasScenarios ==
    LET d == BaseScenario(DirectCall, AddrA)
        e == BaseScenario(ExecOnDestByCaller, AddrA)
    IN  {[b EXCEPT !.gasKind = g] :
            b \in {d, [d EXCEPT !.tail = <<Uri, Uri>>], e,
                   [e EXCEPT !.tail = <<Uri, Uri, AddrB>>]},
            g \in AllGasKinds}

MaxGasCalls == 2

GasInit == InitWith({<<>>}, {TableA, TableHuge})

GasNext ==
    \/ /\ nCalls < MaxGasCalls
       /\ \E sc \in GasScenarios : Call(1, sc)
    \/ \E gc \in {TableB, TableHuge} : SetNewGasConfig(gc)

SpecGas == GasInit /\ [][GasNext]_vars

(***************************************************************************)
(* Sequential runs over the royalties argument.                            *)
(***************************************************************************)
WideRoyalties ==
    {<<>>, <<39, 16>>, <<39, 17>>, <<0, 39, 16>>, <<255, 255, 255, 255>>,
     <<1, 0, 0, 0, 0>>, <<1, 0, 0, 39, 16>>, <<1, 0, 0, 39, 17>>}

RoyaltyScenarios ==
    {[b EXCEPT !.roy = r] :
        b \in {BaseScenario(DirectCall, AddrA), BaseScenario(ExecOnDestByCaller, AddrA),
               [BaseScenario(DirectCall, AddrA) EXCEPT !.token = TokU]},
        r \in WideRoyalties}

MaxRoyaltyCalls == 2

RoyaltyInit == InitWith({<<>>}, {TableA})

RoyaltyNext ==
    /\ nCalls < MaxRoyaltyCalls
    /\ \E sc \in RoyaltyScenarios : Call(1, sc)

SpecRoyalties == RoyaltyInit /\ [][RoyaltyNext]_vars

(***************************************************************************)
(* Concurrent runs: each activation of ProcessBuiltinFunction and the      *)
(* activation of SetNewGasConfig advance one step at a time, in any order. *)
(***************************************************************************)
\* The call each process makes: both resolve to the account AddrB, one as
\* the acting account, the other as the target of AddrA's call.
ConcScenario(p) ==
    IF p = 1
    THEN [BaseScenario(DirectCall, AddrB) EXCEPT !.gasKind = "plenty"]
    ELSE [BaseScenario(ExecOnDestByCaller, AddrA) EXCEPT !.gasKind = "plenty"]

ConcTables == {TableA, TableB}

MaxConcCalls == 2
MaxSets == 1

\* p enters ProcessBuiltinFunction.
Enter(p) ==
    /\ frames[p].pc \in {"idle", "done"}
    /\ nCalls < MaxConcCalls
    /\ LET sc == ConcScenario(p)
       IN  \E gas \in GasFor(sc.gasKind, ArgsOf(sc), gasConfig.StorePerByte, funcGasCost) :
               frames' = [frames EXCEPT ![p] = NewFrame(AcntSndOf(sc), InputOf(sc, gas),
                                                         EnvOf(sc), World)]
    /\ nCalls' = nCalls + 1
    /\ UNCHANGED <<accountData, persisted, units, liquidity, funcGasCost, gasConfig,
                   mutExecution, keyPrefixArray, noncePrefixArray, setter>>

\* p takes the next step of its activation.
Step(p) ==
    /\ frames[p].pc \notin {"idle", "done"}
    /\ CanStep([f |-> frames[p], w |-> World])
    /\ LET st == StepFn([f |-> frames[p], w |-> World])
       IN  /\ frames' = [frames EXCEPT ![p] = st.f]
           /\ SetWorld(st.w)
    /\ UNCHANGED <<setter, nCalls>>

\* SetNewGasConfig(gasCost) is entered.
SetEnter(gasCost) ==
    /\ setter.pc \in {"idle", "done"}
    /\ setter.runs < MaxSets
    /\ setter' = [pc |-> "nilCheck", gasCost |-> gasCost, runs |-> setter.runs + 1]
    /\ UNCHANGED <<accountData, persisted, units, liquidity, funcGasCost, gasConfig,
                   mutExecution, keyPrefixArray, noncePrefixArray, frames, nCalls>>

\* SetNewGasConfig takes its next step.
SetStep ==
    /\ setter.pc \notin {"idle", "done"}
    /\ SetCanStep([s |-> setter, w |-> World])
    /\ LET st == SetStepFn([s |-> setter, w |-> World])
       IN  /\ setter' = st.s
           /\ SetWorld(st.w)
    /\ UNCHANGED <<frames, nCalls>>

ConcInit == InitWith({<<>>}, {TableA})

ConcNext ==
    \/ \E p \in Procs : Enter(p)
    \/ \E p \in Procs : Step(p)
    \/ \E gc \in {NilGasCost, TableB} : SetEnter(gc)
    \/ SetStep

SpecConc == ConcInit /\ [][ConcNext]_vars

(***************************************************************************)
(* Replayed runs: each call is executed twice from the same call record    *)
(* and the same prior state, the second time by a handler whose arrays     *)
(* behind keyPrefix and noncePrefix have any spare room and hold whatever  *)
(* earlier calls left there.                                               *)
(***************************************************************************)
\* The bytes an earlier call may have left in the spare room of an array.
SpareBytes == {0} \cup {t[1] : t \in Tokens}
Leftovers == UNION {[1..k -> SpareBytes] : k \in Spares}

\* The calls replayed: the valid call of each mode and calls that fail at a
\* check or at a collaborator.
ReplayScenarios ==
    LET d == BaseScenario(DirectCall, AddrA)
        e == BaseScenario(ExecOnDestByCaller, AddrA)
    IN  {d, e, [d EXCEPT !.token = TokU], [e EXCEPT !.qty = <<2>>],
         [d EXCEPT !.gasKind = "oneLess"], [d EXCEPT !.roy = <<39, 17>>],
         [e EXCEPT !.fault = "SaveDCTNFTToken"],
         [d EXCEPT !.fault = "AddToLiquiditySystemAcc"],
         [e EXCEPT !.fault = "SaveAccount"], [d EXCEPT !.fault = "Marshal"]}

MaxReplayCalls == 2

Replay(sc) ==
    /\ nCalls < MaxReplayCalls
    /\ \E gas \in GasFor(sc.gasKind, ArgsOf(sc), gasConfig.StorePerByte, funcGasCost),
          t \in Leftovers :
          LET f == NewFrame(AcntSndOf(sc), InputOf(sc, gas), EnvOf(sc), World)
              st1 == RunToReturn([f |-> f, w |-> World])
              st2 == RunToReturn([f |-> f,
                                  w |-> [World EXCEPT
                                            !.keyPrefixArray = keyPrefix \o t,
                                            !.noncePrefixArray = noncePrefix \o t]])
          IN  /\ frames' = [frames EXCEPT ![1] = st1.f, ![2] = st2.f]
              /\ SetWorld(st1.w)
    /\ nCalls' = nCalls + 1
    /\ UNCHANGED setter

ReplayInit == InitOver({<<>>}, {TableA}, Spares)

ReplayNext == \E sc \in ReplayScenarios : Replay(sc)

SpecReplay == ReplayInit /\ [][ReplayNext]_vars

(***************************************************************************)
(* Sequential runs over calls that violate up to two checks.               *)
(***************************************************************************)
Violations ==
    {"recipient", "noAccount", "belowBase", "count", "shortTarget", "selfTarget",
     "LoadAccount", "WrongType", "noCreateRole", "RetrieveValue", "oneLess",
     "royalties", "zeroQuantity", "noAddRole", "longQuantity"}

\* The scenario b made to violate the check v names.
Violate(b, v) ==
    CASE v = "recipient" -> [b EXCEPT !.recipient = Other(b.caller)]
      [] v = "noAccount" -> [b EXCEPT !.hasAcnt = FALSE]
      [] v = "belowBase" -> [b EXCEPT !.gasKind = "belowBase"]
      [] v = "count" -> [b EXCEPT !.tail = IF b.callType = ExecOnDestByCaller
                                            THEN <<Other(b.caller)>> ELSE <<>>]
      [] v = "shortTarget" -> [b EXCEPT !.tail = <<Uri, AddrShort>>]
      [] v = "selfTarget" -> [b EXCEPT !.tail = <<Uri, b.caller>>]
      [] v = "LoadAccount" -> [b EXCEPT !.fault = "LoadAccount"]
      [] v = "WrongType" -> [b EXCEPT !.fault = "WrongType"]
      [] v = "noCreateRole" -> [b EXCEPT !.roles = "addOnly"]
      [] v = "RetrieveValue" -> [b EXCEPT !.fault = "RetrieveValue"]
      [] v = "oneLess" -> [b EXCEPT !.gasKind = "oneLess"]
      [] v = "royalties" -> [b EXCEPT !.roy = <<39, 17>>]
      [] v = "zeroQuantity" -> [b EXCEPT !.qty = <<0>>]
      [] v = "noAddRole" -> [b EXCEPT !.qty = <<2>>, !.roles = "create"]
      [] v = "longQuantity" -> [b EXCEPT !.qty = LongQuantity]

OrderScenarios ==
    {Violate(Violate(BaseScenario(ct, AddrA), v1), v2) :
        ct \in {DirectCall, ExecOnDestByCaller}, v1 \in Violations, v2 \in Violations}

MaxOrderCalls == 1

OrderInit == InitWith({<<>>}, {TableA})

OrderNext ==
    /\ nCalls < MaxOrderCalls
    /\ \E sc \in OrderScenarios : Call(1, sc)

SpecOrder == OrderInit /\ [][OrderNext]_vars

(***************************************************************************)
(* Concurrent runs over a handler whose arrays behind keyPrefix and        *)
(* noncePrefix have any spare room: two calls for different tokens of      *)
(* different accounts advance one step at a time, in any order.            *)
(***************************************************************************)
\* The call each process makes: its own account creating its own token.
AliasScenario(p) ==
    IF p = 1
    THEN [BaseScenario(DirectCall, AddrA) EXCEPT !.gasKind = "plenty"]
    ELSE [BaseScenario(DirectCall, AddrB) EXCEPT !.gasKind = "plenty", !.token = TokU]

MaxAliasCalls == 2

\* p enters ProcessBuiltinFunction.
AliasEnter(p) ==
    /\ frames[p].pc \in {"idle", "done"}
    /\ nCalls < MaxAliasCalls
    /\ LET sc == AliasScenario(p)
       IN  \E gas \in GasFor(sc.gasKind, ArgsOf(sc), gasConfig.StorePerByte, funcGasCost) :
               frames' = [frames EXCEPT ![p] = NewFrame(AcntSndOf(sc), InputOf(sc, gas),
                                                         EnvOf(sc), World)]
    /\ nCalls' = nCalls + 1
    /\ UNCHANGED <<accountData, persisted, units, liquidity, funcGasCost, gasConfig,
                   mutExecution, keyPrefixArray, noncePrefixArray, setter>>

AliasInit == InitOver({<<>>}, {TableA}, Spares)

AliasNext ==
    \/ \E p \in Procs : AliasEnter(p)
    \/ \E p \in Procs : Step(p)

SpecAlias == AliasInit /\ [][AliasNext]_vars

(***************************************************************************)
(* Fairly scheduled concurrent runs: calls that succeed or fail at any of  *)
(* the return statements and a replacement of the cost table advance one   *)
(* step at a time; every activation that can take a step eventually does.  *)
(***************************************************************************)
\* The calls of each process.  Process 1 calls on behalf of AddrB: the valid
\* call, the calls that violate one check, and the calls one of whose
\* collaborators fails.  Process 2 is AddrB making the valid call itself.
FairScenarios(p) ==
    LET b == BaseScenario(ExecOnDestByCaller, AddrA)
    IN  IF p = 1
        THEN {b} \cup {Violate(b, v) : v \in Violations}
                 \cup {[b EXCEPT !.fault = x] : x \in Faults}
        ELSE {BaseScenario(DirectCall, AddrB)}

MaxFairCalls == 2

\* p enters ProcessBuiltinFunction with the call of scenario sc.
FairEnter(p, sc) ==
    /\ frames[p].pc \in {"idle", "done"}
    /\ nCalls < MaxFairCalls
    /\ \E gas \in GasFor(sc.gasKind, ArgsOf(sc), gasConfig.StorePerByte, funcGasCost) :
           frames' = [frames EXCEPT ![p] = NewFrame(AcntSndOf(sc), InputOf(sc, gas),
                                                     EnvOf(sc), World)]
    /\ nCalls' = nCalls + 1
    /\ UNCHANGED <<accountData, persisted, units, liquidity, funcGasCost, gasConfig,
                   mutExecution, keyPrefixArray, noncePrefixArray, setter>>

FairInit == InitWith({<<>>}, {TableA})

FairNext ==
    \/ \E p \in Procs : \E sc \in FairScenarios(p) : FairEnter(p, sc)
    \/ \E p \in Procs : Step(p)
    \/ \E gc \in {NilGasCost, TableB} : SetEnter(gc)
    \/ SetStep

\* p is in ProcessBuiltinFunction and not blocked on the lock.
Runnable(p) ==
    /\ frames[p].pc \notin {"idle", "done"}
    /\ CanStep([f |-> frames[p], w |-> World])

\* Weak fairness of Step(p), WF_vars(Step(p)), written out: Step(p) is
\* enabled exactly when p is runnable, and every Step(p) changes frames[p].
WFStep(p) == []<>(~Runnable(p)) \/ []<><<Step(p)>>_vars

\* The scheduler runs every goroutine that is not blocked on the lock.
Fairness == (\A p \in Procs : WFStep(p)) /\ WF_vars(SetStep)

SpecFair == FairInit /\ [][FairNext]_vars /\ Fairness

(***************************************************************************)
(* What the claims speak of                                                *)
(***************************************************************************)

Returned(f) == f.pc = "done"
Succeeded(f) == f.pc = "done" /\ f.err = ErrNone
Failed(f) == f.pc = "done" /\ f.err # ErrNone

\* The positions of the collaborator calls named op in an activation's ops.
OpsAt(f, names) == {i \in 1..Len(f.ops) : f.ops[i].op \in names}
MutationOps == {"SaveDCTNFTToken", "AddToLiquiditySystemAcc", "SaveKeyValue", "SaveAccount"}
AccountOps ==
    {"LoadAccount", "CheckAllowedToExecute", "RetrieveValue", "SaveDCTNFTToken",
     "SaveKeyValue", "SaveAccount"}

\* The errors of the validation steps (lines 110-182).
ValidationErrors ==
    {ErrBasicDCTArguments, ErrInvalidRcvAddr, ErrNilUserAccount, ErrNotEnoughGas,
     ErrInvalidArguments, ErrInvalidAddressLength, ErrLoadAccount, ErrWrongTypeAssertion,
     ErrActionNotAllowed, ErrRetrieveValue}

\* The account, token and quantity a call names, read off its call record.
LastArg(f) == f.vmInput.Arguments[Len(f.vmInput.Arguments)]
TargetOf(f) ==
    IF f.vmInput.CallType = ExecOnDestByCaller THEN LastArg(f) ELSE f.acntSnd
TokenOf(f) == f.vmInput.Arguments[1]
QuantityOf(f) == Norm(f.vmInput.Arguments[2])
RoyaltiesOf(f) == Norm(f.vmInput.Arguments[4])
Holds(f, role) == <<TargetOf(f), TokenOf(f), role>> \in f.env.roleGrants

\* The stored nonce of (account, token) in the shared state w.
StoredNonce(w, a, t) == Norm(Lookup(w.accountData[a], getNonceKey(t), <<>>))

\* The account data, the saved units and the global supply are as at entry.
NothingMutated(f) ==
    /\ OpsAt(f, MutationOps) = {}
    /\ accountData = f.pre.accountData
    /\ persisted = f.pre.persisted
    /\ units = f.pre.units
    /\ liquidity = f.pre.liquidity

\* The checks of steps 1 and 2, stated on the call record.
PassesShape(f) ==
    /\ f.vmInput.basicOk
    /\ f.vmInput.CallerAddr = f.vmInput.RecipientAddr
    /\ f.vmInput.CallType = ExecOnDestByCaller \/ f.acntSnd # NilAccount
    /\ CmpB(f.vmInput.GasProvided, f.pre.funcGasCost) >= 0
PassesCount(f) ==
    Len(f.vmInput.Arguments) >= (IF f.vmInput.CallType = ExecOnDestByCaller THEN 8 ELSE 7)
\* The target address of step 3 is acceptable and its account loads.
PassesTarget(f) ==
    f.vmInput.CallType = ExecOnDestByCaller =>
        /\ Len(LastArg(f)) = Len(f.vmInput.CallerAddr)
        /\ LastArg(f) # f.vmInput.CallerAddr
        /\ f.env.fault \notin {"LoadAccount", "WrongType"}
\* Gas covers the exact cost of step 6.
PassesGas(f) ==
    CmpB(f.vmInput.GasProvided,
         ExactCost(f.vmInput.Arguments, f.pre.gasConfig.StorePerByte, f.pre.funcGasCost)) >= 0
PassesLength(f) ==
    f.env.lengthCheck => Len(f.vmInput.Arguments[2]) <= maxLenForAddNFTQuantity
NoStorageFault(f) ==
    f.env.fault \notin {"RetrieveValue", "SaveDCTNFTToken", "AddToLiquiditySystemAcc",
                        "SaveKeyValue", "SaveAccount"}

(***************************************************************************)
(* C1: a call that fails at a validation step has made none of the calls   *)
(* SaveDCTNFTToken, AddToLiquiditySystemAcc, saveLatestNonce, SaveAccount, *)
(* and the account data (the stored nonces), the saved units and the       *)
(* global supply are what they were before the call.                       *)
(***************************************************************************)
C1_ValidationFailureMutatesNothing ==
    \A p \in Procs :
        (Failed(frames[p]) /\ frames[p].err \in ValidationErrors)
            => NothingMutated(frames[p])

\* A call rejected for its royalties, after an earlier call had created a unit.
C1_Witness ==
    /\ Failed(frames[1])
    /\ frames[1].err = ErrInvalidArguments
    /\ CmpB(frames[1].royalties, MaxRoyalty) > 0
    /\ units # EmptyMap

(***************************************************************************)
(* C2: for every successful call and every prior nonce a 64-bit counter    *)
(* can hold, the maximum included, the nonce of the return payload is the  *)
(* prior nonce plus 1, and getLatestNonce on the same account and token    *)
(* right after the call gives that same value.                             *)
(***************************************************************************)
C2_ReturnedNonceIsPriorPlusOne ==
    \A p \in Procs :
        LET f == frames[p]
        IN  Succeeded(f) =>
              /\ f.vmOutput.ReturnData =
                     <<AddB(StoredNonce(f.pre, TargetOf(f), TokenOf(f)), <<1>>)>>
              /\ getLatestNonce(World, TargetOf(f), TokenOf(f)) = f.vmOutput.ReturnData[1]

(***************************************************************************)
(* C3: over calls made one after another the stored nonce of each account  *)
(* and token never decreases: a failed call leaves it unchanged, a         *)
(* successful call raises it by exactly 1, and two successive successful   *)
(* calls on the same account and token return consecutive nonces.          *)
(***************************************************************************)
C3_NonceStep ==
    nCalls' # nCalls =>
        LET f == frames'[1]
            g == frames[1]
        IN  /\ \A a \in Accounts, t \in Tokens :
                  LET old == StoredNonce([accountData |-> accountData], a, t)
                      new == StoredNonce([accountData |-> accountData'], a, t)
                  IN  /\ CmpB(new, old) >= 0
                      /\ Failed(f) => new = old
                      /\ Succeeded(f) =>
                            new = IF a = TargetOf(f) /\ t = TokenOf(f)
                                  THEN AddB(old, <<1>>) ELSE old
            /\ ( /\ Succeeded(f) /\ Succeeded(g)
                 /\ TargetOf(f) = TargetOf(g) /\ TokenOf(f) = TokenOf(g) )
                  => f.vmOutput.ReturnData[1] = AddB(g.vmOutput.ReturnData[1], <<1>>)

C3_NonceNeverDecreases == [][C3_NonceStep]_vars

(***************************************************************************)
(* C4: for every call that passes all the other checks the gas charged is  *)
(* exactly (sum of the arguments' lengths) x StorePerByte + funcGasCost:   *)
(* with at least that amount the call succeeds and GasRemaining is what    *)
(* was provided less that amount (0 when it is exact), with less (one      *)
(* less, for one) it fails with the insufficient-gas error and the stored  *)
(* nonce is unchanged.                                                     *)
(***************************************************************************)
PassesAllButGas(f) ==
    /\ f.vmInput.basicOk
    /\ f.vmInput.CallerAddr = f.vmInput.RecipientAddr
    /\ f.vmInput.CallType = ExecOnDestByCaller \/ f.acntSnd # NilAccount
    /\ PassesCount(f) /\ PassesTarget(f)
    /\ Holds(f, DCTRoleNFTCreate)
    /\ CmpB(QuantityOf(f), <<>>) > 0
    /\ CmpB(QuantityOf(f), <<1>>) > 0 => Holds(f, DCTRoleNFTAddQuantity)
    /\ CmpB(RoyaltiesOf(f), MaxRoyalty) <= 0
    /\ PassesLength(f) /\ NoStorageFault(f)

C4_GasChargedExactly ==
    \A p \in Procs :
        LET f == frames[p]
            exact == ExactCost(f.vmInput.Arguments, f.pre.gasConfig.StorePerByte,
                               f.pre.funcGasCost)
        IN  (Returned(f) /\ PassesAllButGas(f)) =>
              /\ CmpB(f.vmInput.GasProvided, exact) >= 0 =>
                    /\ Succeeded(f)
                    /\ AddB(f.vmOutput.GasRemaining, exact) = f.vmInput.GasProvided
              /\ CmpB(f.vmInput.GasProvided, exact) < 0 =>
                    /\ Failed(f)
                    /\ f.err = ErrNotEnoughGas
                    /\ accountData = f.pre.accountData

(***************************************************************************)
(* C5: with SetNewGasConfig running concurrently with the calls, every     *)
(* call uses a base cost and a per-byte cost of one cost-table version,    *)
(* the same for the base-cost check of step 1 and the gas computation of   *)
(* step 6; while a call holds the read lock the table is not half-updated. *)
(***************************************************************************)
C5_OneCostTableVersionPerCall ==
    \A p \in Procs :
        LET f == frames[p]
        IN  /\ f.checkedBase # <<>> =>
                  \E t \in ConcTables : f.checkedBase = t.DCTNFTCreate
            /\ f.readPerByte # <<>> =>
                  \E t \in ConcTables :
                      /\ f.checkedBase = t.DCTNFTCreate
                      /\ f.readBase = t.DCTNFTCreate
                      /\ f.readPerByte = t.StorePerByte
                      /\ f.gasToUse = GasToUse(f.vmInput.Arguments, t.StorePerByte,
                                               t.DCTNFTCreate)
            /\ f.pc \notin {"idle", "RLock", "done"} =>
                  \E t \in ConcTables :
                      /\ funcGasCost = t.DCTNFTCreate
                      /\ gasConfig.StorePerByte = t.StorePerByte

\* Two calls entered under the first table, with a replacement entered
\* alongside: one computed its gas from the first table, the other waited
\* for the writer and succeeded under the second.
C5_Witness ==
    /\ frames[1].readPerByte = TableA.StorePerByte
    /\ Succeeded(frames[2])
    /\ frames[2].readPerByte = TableB.StorePerByte
    /\ frames[2].pre.funcGasCost = TableA.DCTNFTCreate
    /\ frames[2].pre.accountData = frames[1].pre.accountData

(***************************************************************************)
(* C6: for every byte string given as argument 3, a value above 10000      *)
(* makes the call fail with the invalid-arguments error and change no      *)
(* state, and a value of 10000 or less passes the royalties check.         *)
(***************************************************************************)
PassesBeforeRoyalties(f) ==
    /\ PassesShape(f) /\ PassesCount(f) /\ PassesTarget(f)
    /\ Holds(f, DCTRoleNFTCreate)
    /\ f.env.fault # "RetrieveValue"
    /\ PassesGas(f)

C6_RoyaltiesAboveLimitRejected ==
    \A p \in Procs :
        LET f == frames[p]
        IN  (Returned(f) /\ PassesBeforeRoyalties(f)) =>
              /\ CmpB(RoyaltiesOf(f), MaxRoyalty) > 0 =>
                    /\ Failed(f)
                    /\ f.err = ErrInvalidArguments
                    /\ NothingMutated(f)
              /\ CmpB(RoyaltiesOf(f), MaxRoyalty) <= 0 => f.dctTokenKey # <<>>

(***************************************************************************)
(* C7: a call succeeds only if the resolved account holds the create role  *)
(* for the token of argument 0 and, when the quantity of argument 1 is     *)
(* above 1, the add-quantity role too; a quantity above 1 is rejected      *)
(* without the add-quantity grant and accepted with it (every other check  *)
(* passing); a quantity of 0 is rejected whatever the grants.              *)
(***************************************************************************)
C7_RolesDecideSuccess ==
    \A p \in Procs :
        LET f == frames[p]
        IN  Returned(f) /\ Len(f.vmInput.Arguments) >= 2 =>
              /\ Succeeded(f) =>
                    /\ Holds(f, DCTRoleNFTCreate)
                    /\ CmpB(QuantityOf(f), <<1>>) > 0 => Holds(f, DCTRoleNFTAddQuantity)
              /\ (CmpB(QuantityOf(f), <<1>>) > 0 /\ ~Holds(f, DCTRoleNFTAddQuantity))
                    => Failed(f)
              /\ ( /\ CmpB(QuantityOf(f), <<1>>) > 0
                   /\ Holds(f, DCTRoleNFTAddQuantity)
                   /\ Holds(f, DCTRoleNFTCreate)
                   /\ PassesShape(f) /\ PassesCount(f) /\ PassesTarget(f) /\ PassesGas(f)
                   /\ CmpB(RoyaltiesOf(f), MaxRoyalty) <= 0
                   /\ PassesLength(f) /\ NoStorageFault(f) )
                    => Succeeded(f)
              /\ QuantityOf(f) = <<>> => Failed(f)

\* A call with quantity 2 accepted, the account holding both roles.
C7_Witness ==
    /\ Succeeded(frames[1])
    /\ QuantityOf(frames[1]) = <<2>>
    /\ Holds(frames[1], DCTRoleNFTAddQuantity)

(***************************************************************************)
(* C8: every unit handed to SaveDCTNFTToken has a quantity above 0,        *)
(* royalties of at most 10000, the non-fungible type and a metadata nonce  *)
(* equal to the nonce it is saved under.                                   *)
(***************************************************************************)
WellFormedUnit(data, nonce) ==
    /\ CmpB(data.Value, <<>>) > 0
    /\ CmpB(data.Royalties, MaxRoyalty) <= 0
    /\ data.Type = NonFungible
    /\ data.Nonce = nonce

C8_SavedUnitsWellFormed ==
    /\ \A p \in Procs :
          \A i \in OpsAt(frames[p], {"SaveDCTNFTToken"}) :
              WellFormedUnit(frames[p].ops[i].data, frames[p].ops[i].nonce)
    /\ \A k \in DOMAIN units : WellFormedUnit(units[k].data, k[3])

\* A unit saved with royalties 10000 under nonce 2.
C8_Witness ==
    \E k \in DOMAIN units :
        /\ units[k].data.Royalties = MaxRoyalty
        /\ k[3] = <<2>>

(***************************************************************************)
(* C9: in ExecOnDestByCaller a last argument whose length differs from the *)
(* caller address's fails the call with ErrInvalidAddressLength, and a     *)
(* last argument equal to the caller address fails it with                 *)
(* ErrInvalidRcvAddr (the call having passed the checks of lines 110-122); *)
(* in both cases no account was loaded and nothing was mutated.            *)
(***************************************************************************)
C9_BadTargetRejectedBeforeLoad ==
    \A p \in Procs :
        LET f == frames[p]
        IN  ( /\ Returned(f)
              /\ f.vmInput.CallType = ExecOnDestByCaller
              /\ Len(f.vmInput.Arguments) >= 1 ) =>
              /\ Len(LastArg(f)) # Len(f.vmInput.CallerAddr) =>
                    /\ Failed(f)
                    /\ OpsAt(f, {"LoadAccount"}) = {}
                    /\ NothingMutated(f)
                    /\ (PassesShape(f) /\ PassesCount(f)) => f.err = ErrInvalidAddressLength
              /\ LastArg(f) = f.vmInput.CallerAddr =>
                    /\ Failed(f)
                    /\ OpsAt(f, {"LoadAccount"}) = {}
                    /\ NothingMutated(f)
                    /\ (PassesShape(f) /\ PassesCount(f)) => f.err = ErrInvalidRcvAddr

\* A resolved-target call rejected for the length of its target address,
\* units being stored already.
C9_Witness ==
    /\ frames[1].pc = "done"
    /\ frames[1].vmInput.CallType = ExecOnDestByCaller
    /\ frames[1].err = ErrInvalidAddressLength
    /\ units # EmptyMap

(***************************************************************************)
(* C10: a successful ExecOnDestByCaller call touches only the target       *)
(* account named by its last argument: every account read and write is on  *)
(* it, the caller's account data is unchanged, the unit (creator: the      *)
(* caller address) and the new nonce are stored under the target, and      *)
(* SaveAccount is called once, on the target, after the nonce write.  A    *)
(* DirectCall never calls SaveAccount and stores the unit and the nonce    *)
(* under the acting account.                                               *)
(***************************************************************************)
TheOp(f, name) == f.ops[CHOOSE i \in OpsAt(f, {name}) : TRUE]

StoredUnderAccount(f, acct) ==
    LET save == TheOp(f, "SaveDCTNFTToken")
        put == TheOp(f, "SaveKeyValue")
    IN  /\ Cardinality(OpsAt(f, {"SaveDCTNFTToken"})) = 1
        /\ Cardinality(OpsAt(f, {"SaveKeyValue"})) = 1
        /\ \A i \in OpsAt(f, AccountOps) : f.ops[i].addr = acct
        /\ save.key = keyPrefix \o TokenOf(f)
        /\ save.data.Creator = f.vmInput.CallerAddr
        /\ <<acct, save.key, save.nonce>> \in DOMAIN units
        /\ units[<<acct, save.key, save.nonce>>].data = save.data
        /\ put.key = getNonceKey(TokenOf(f))
        /\ put.val = f.vmOutput.ReturnData[1]
        /\ StoredNonce(World, acct, TokenOf(f)) = f.vmOutput.ReturnData[1]
        /\ \A a \in Accounts \ {acct} : accountData[a] = f.pre.accountData[a]

C10_TargetAccountOnly ==
    \A p \in Procs :
        LET f == frames[p]
        IN  /\ (Succeeded(f) /\ f.vmInput.CallType = ExecOnDestByCaller) =>
                  /\ LastArg(f) # f.vmInput.CallerAddr
                  /\ StoredUnderAccount(f, LastArg(f))
                  /\ Cardinality(OpsAt(f, {"SaveAccount"})) = 1
                  /\ \A i \in OpsAt(f, {"SaveAccount"}) :
                        /\ f.ops[i].addr = LastArg(f)
                        /\ \A j \in OpsAt(f, {"SaveKeyValue"}) : j < i
                  /\ persisted[LastArg(f)] = accountData[LastArg(f)]
                  /\ \A a \in Accounts \ {LastArg(f)} : persisted[a] = f.pre.persisted[a]
            /\ (Returned(f) /\ f.vmInput.CallType = DirectCall) =>
                  /\ OpsAt(f, {"SaveAccount"}) = {}
                  /\ persisted = f.pre.persisted
            /\ (Succeeded(f) /\ f.vmInput.CallType = DirectCall) =>
                  StoredUnderAccount(f, f.acntSnd)

\* A successful resolved-target call made after the caller created a token
\* on its own account: the caller's account holds data the call must leave.
C10_Witness ==
    /\ Succeeded(frames[1])
    /\ frames[1].vmInput.CallType = ExecOnDestByCaller
    /\ accountData[frames[1].vmInput.CallerAddr] # EmptyMap
    /\ persisted[LastArg(frames[1])] # EmptyMap

(***************************************************************************)
(* C11: an otherwise valid call with exactly the minimum argument count    *)
(* (7 in DirectCall, 8 in ExecOnDestByCaller) succeeds and the unit it     *)
(* creates holds exactly one URI, argument 6; a call with one argument     *)
(* fewer fails with the invalid-arguments error; in ExecOnDestByCaller the *)
(* trailing target address is never part of the URI list.                  *)
(***************************************************************************)
MinNumOfArgs(f) == IF f.vmInput.CallType = ExecOnDestByCaller THEN 8 ELSE 7

\* The URI list of the unit a successful call handed to SaveDCTNFTToken.
SavedUris(f) == TheOp(f, "SaveDCTNFTToken").data.URIs

\* What the claim says of the argument count apart from the URI list of a
\* call at the minimum.
ArgCountDecides(f) ==
    /\ (PassesShape(f) /\ Len(f.vmInput.Arguments) = MinNumOfArgs(f) - 1) =>
          (Failed(f) /\ f.err = ErrInvalidArguments)
    /\ ( /\ Len(f.vmInput.Arguments) = MinNumOfArgs(f)
         /\ PassesAllButGas(f) /\ PassesShape(f) /\ PassesGas(f) ) => Succeeded(f)
    /\ Succeeded(f) =>
          /\ Len(f.vmInput.Arguments) >= MinNumOfArgs(f)
          /\ SavedUris(f) =
                 SubSeq(f.vmInput.Arguments, 7,
                        IF f.vmInput.CallType = ExecOnDestByCaller
                        THEN Len(f.vmInput.Arguments) - 1
                        ELSE Len(f.vmInput.Arguments))

C11_MinimumCountHasOneUri ==
    \A p \in Procs :
        LET f == frames[p]
        IN  Returned(f) =>
              /\ ArgCountDecides(f)
              /\ (Succeeded(f) /\ Len(f.vmInput.Arguments) = MinNumOfArgs(f)) =>
                    SavedUris(f) = <<f.vmInput.Arguments[7]>>

\* The claim as stated: the URI list of a call at the minimum is empty.
C11_MinimumCountHasNoUri ==
    \A p \in Procs :
        LET f == frames[p]
        IN  Returned(f) =>
              /\ ArgCountDecides(f)
              /\ (Succeeded(f) /\ Len(f.vmInput.Arguments) = MinNumOfArgs(f)) =>
                    SavedUris(f) = <<>>

\* A successful resolved-target call of 8 arguments, the second call of its
\* run.
C11_Witness ==
    /\ Succeeded(frames[1])
    /\ frames[1].vmInput.CallType = ExecOnDestByCaller
    /\ Len(frames[1].vmInput.Arguments) = 8
    /\ SavedUris(frames[1]) = <<Uri>>
    /\ nCalls = 2
    /\ units # EmptyMap

FaultOp(fault) == IF fault = "WrongType" THEN "LoadAccount" ELSE fault

\* The failing collaborator was called.
FaultHit(f) == f.env.fault # "none" /\ OpsAt(f, {FaultOp(f.env.fault)}) # {}

C13_MarshalFailureIsNotFatal ==
    \A p \in Procs :
        LET f == frames[p]
            target == TargetOf(f)
            prior == StoredNonce(f.pre, target, TokenOf(f))
        IN  Returned(f) =>
              /\ (FaultHit(f) /\ f.env.fault # "Marshal") =>
                    (Failed(f) /\ f.vmOutput = NoOutput)
              /\ (FaultHit(f) /\ f.env.fault = "Marshal") =>
                    /\ Succeeded(f)
                    /\ f.vmOutput.ReturnCode = Ok
                    /\ AddB(f.vmOutput.GasRemaining,
                            ExactCost(f.vmInput.Arguments, f.pre.gasConfig.StorePerByte,
                                      f.pre.funcGasCost)) = f.vmInput.GasProvided
                    /\ f.vmOutput.ReturnData = <<AddB(prior, <<1>>)>>
                    /\ Len(f.vmOutput.Logs) = 1
                    /\ f.vmOutput.Logs[1].Data = <<>>
                    /\ StoredUnderAccount(f, target)
                    /\ <<keyPrefix \o TokenOf(f), f.nextNonce>> \in DOMAIN liquidity
                    /\ f.vmInput.CallType = ExecOnDestByCaller =>
                          persisted[target] = accountData[target]
              /\ (f.env.fault = "Marshal" /\ PassesAllButGas(f) /\ PassesShape(f)
                    /\ PassesGas(f)) => FaultHit(f)

\* A resolved-target call whose marshaller failed, returned with success
\* and an event without payload.
C13_Witness ==
    /\ Succeeded(frames[1])
    /\ frames[1].env.fault = "Marshal"
    /\ frames[1].vmInput.CallType = ExecOnDestByCaller
    /\ frames[1].vmOutput.Logs[1].Data = <<>>
    /\ persisted[AddrB] # EmptyMap

(***************************************************************************)
(* C14: SetNewGasConfig with a nil input leaves funcGasCost and gasConfig  *)
(* unchanged and does not take the write lock; with a non-nil input it     *)
(* replaces funcGasCost and gasConfig by the input's values, writing them  *)
(* under the write lock, and changes nothing else of the handler.          *)
(***************************************************************************)
C14_SetterStep ==
    setter' # setter =>
        /\ UNCHANGED <<accountData, persisted, units, liquidity, keyPrefixArray,
                       noncePrefixArray, frames>>
        /\ setter'.gasCost.isNil =>
              /\ setter'.pc \in {"nilCheck", "done"}
              /\ UNCHANGED <<funcGasCost, gasConfig, mutExecution>>
        /\ (funcGasCost' # funcGasCost \/ gasConfig' # gasConfig) =>
              (mutExecution.writer /\ mutExecution.readers = 0)
        /\ (~setter'.gasCost.isNil /\ setter'.pc = "done") =>
              /\ funcGasCost' = setter'.gasCost.DCTNFTCreate
              /\ gasConfig' = [StorePerByte |-> setter'.gasCost.StorePerByte]
              /\ mutExecution' = [mutExecution EXCEPT !.writer = FALSE]
              /\ ~mutExecution'.writerWaiting

C14_NilInputIsNoOp == [][C14_SetterStep]_vars

\* SetNewGasConfig(nil) has returned while a call was in flight, the cost
\* table still the first one.
C14_Witness ==
    /\ setter.pc = "done"
    /\ setter.gasCost.isNil
    /\ frames[1].pc \notin {"idle", "done"}
    /\ funcGasCost = TableA.DCTNFTCreate
    /\ gasConfig = [StorePerByte |-> TableA.StorePerByte]

(***************************************************************************)
(* C15: a call that violates several checks returns the error of the       *)
(* earliest one in the order: caller = recipient, acting account present   *)
(* (DirectCall only), gas >= base cost, argument count, target address     *)
(* length, target # caller, target account load and type, create role,     *)
(* nonce read, total gas, royalties <= 10000, quantity > 0, add-quantity   *)
(* role (quantity > 1), quantity byte length (flag enabled).               *)
(***************************************************************************)
\* The first check of that order the call record fails: the return
\* statement and the error expected, or "" and nil when it fails none.
FirstViolated(f) ==
    LET in == f.vmInput
        exec == in.CallType = ExecOnDestByCaller
        at(pc, e) == [errAt |-> pc, err |-> e]
    IN  IF in.CallerAddr # in.RecipientAddr THEN at("checkInput", ErrInvalidRcvAddr)
        ELSE IF ~exec /\ f.acntSnd = NilAccount THEN at("checkInput", ErrNilUserAccount)
        ELSE IF CmpB(in.GasProvided, f.pre.funcGasCost) < 0
             THEN at("checkInput", ErrNotEnoughGas)
        ELSE IF ~PassesCount(f) THEN at("argCount", ErrInvalidArguments)
        ELSE IF exec /\ Len(LastArg(f)) # Len(in.CallerAddr)
             THEN at("resolve", ErrInvalidAddressLength)
        ELSE IF exec /\ LastArg(f) = in.CallerAddr THEN at("resolve", ErrInvalidRcvAddr)
        ELSE IF exec /\ f.env.fault = "LoadAccount" THEN at("resolve", ErrLoadAccount)
        ELSE IF exec /\ f.env.fault = "WrongType" THEN at("resolve", ErrWrongTypeAssertion)
        ELSE IF ~Holds(f, DCTRoleNFTCreate) THEN at("createRole", ErrActionNotAllowed)
        ELSE IF f.env.fault = "RetrieveValue" THEN at("getNonce", ErrRetrieveValue)
        ELSE IF ~PassesGas(f) THEN at("gas", ErrNotEnoughGas)
        ELSE IF CmpB(RoyaltiesOf(f), MaxRoyalty) > 0
             THEN at("royalties", ErrInvalidArguments)
        ELSE IF CmpB(QuantityOf(f), <<>>) <= 0 THEN at("quantity", ErrInvalidArguments)
        ELSE IF CmpB(QuantityOf(f), <<1>>) > 0 /\ ~Holds(f, DCTRoleNFTAddQuantity)
             THEN at("addQuantityRole", ErrActionNotAllowed)
        ELSE IF ~PassesLength(f) THEN at("lengthCheck", ErrInvalidArguments)
        ELSE at("", ErrNone)

C15_EarliestCheckDecides ==
    \A p \in Procs :
        LET f == frames[p]
        IN  Returned(f) =>
              /\ f.err = FirstViolated(f).err
              /\ f.errAt = FirstViolated(f).errAt

\* A call with royalties above 10000 and one unit of gas too little,
\* returned with the insufficient-gas error of the total-gas check.
C15_Witness ==
    /\ Failed(frames[1])
    /\ frames[1].err = ErrNotEnoughGas
    /\ frames[1].errAt = "gas"
    /\ CmpB(RoyaltiesOf(frames[1]), MaxRoyalty) > 0

(***************************************************************************)
(* C16: a call that passes validation makes its mutations in the order     *)
(* SaveDCTNFTToken (flagged as creation), AddToLiquiditySystemAcc,         *)
(* saveLatestNonce, SaveAccount (ExecOnDestByCaller only); when one fails  *)
(* the call returns its error, makes none of the later ones, produces no   *)
(* output, and the earlier ones stay: after an AddToLiquiditySystemAcc     *)
(* failure the unit saved under nonce + 1 remains and the stored nonce is  *)
(* still the prior one.                                                    *)
(***************************************************************************)
\* The names of the mutating collaborator calls of an activation, in order.
MutationsOf(f) ==
    LET sel == SelectSeq(f.ops, LAMBDA o : o.op \in MutationOps)
    IN  [i \in 1..Len(sel) |-> sel[i].op]

\* The mutations of a call that passes validation, in the claimed order.
AllMutations(f) ==
    <<"SaveDCTNFTToken", "AddToLiquiditySystemAcc", "SaveKeyValue">>
        \o (IF f.vmInput.CallType = ExecOnDestByCaller THEN <<"SaveAccount">> ELSE <<>>)

\* The position in AllMutations(f) of the mutation that fails, 0 if none.
FailingMutation(f) ==
    LET hits == {i \in 1..Len(AllMutations(f)) : AllMutations(f)[i] = f.env.fault}
    IN  IF hits = {} THEN 0 ELSE CHOOSE i \in hits : TRUE

\* The error of each mutating collaborator.
MutationError(name) ==
    CASE name = "SaveDCTNFTToken" -> ErrSaveToken
      [] name = "AddToLiquiditySystemAcc" -> ErrAddLiquidity
      [] name = "SaveKeyValue" -> ErrSaveKeyValue
      [] name = "SaveAccount" -> ErrSaveAccount

C16_MutationOrderNoRollback ==
    \A p \in Procs :
        LET f == frames[p]
            k == FailingMutation(f)
            target == TargetOf(f)
            key == keyPrefix \o TokenOf(f)
            prior == StoredNonce(f.pre, target, TokenOf(f))
            next == AddB(prior, <<1>>)
            done(name) == \E i \in 1..Len(MutationsOf(f)) : MutationsOf(f)[i] = name
        IN  (Returned(f) /\ f.vmInput.basicOk /\ FirstViolated(f).errAt = "") =>
              /\ \A i \in OpsAt(f, {"SaveDCTNFTToken"}) : f.ops[i].flag
              /\ k = 0 => (Succeeded(f) /\ MutationsOf(f) = AllMutations(f))
              /\ k > 0 =>
                    /\ Failed(f)
                    /\ f.err = MutationError(AllMutations(f)[k])
                    /\ MutationsOf(f) = SubSeq(AllMutations(f), 1, k)
                    /\ f.vmOutput = NoOutput
              /\ IF done("SaveDCTNFTToken") /\ f.env.fault # "SaveDCTNFTToken"
                 THEN /\ <<target, key, next>> \in DOMAIN units
                      /\ units[<<target, key, next>>].isCreation
                 ELSE units = f.pre.units
              /\ IF done("AddToLiquiditySystemAcc") /\ f.env.fault # "AddToLiquiditySystemAcc"
                 THEN <<key, next>> \in DOMAIN liquidity
                 ELSE liquidity = f.pre.liquidity
              /\ StoredNonce(World, target, TokenOf(f)) =
                     IF done("SaveKeyValue") /\ f.env.fault # "SaveKeyValue"
                     THEN next ELSE prior
              /\ IF done("SaveAccount") /\ f.env.fault # "SaveAccount"
                 THEN persisted[target] = accountData[target]
                 ELSE persisted = f.pre.persisted

\* A second creation whose liquidity update failed: its unit is saved under
\* nonce 2 and the stored nonce is still 1.
C16_Witness ==
    /\ Failed(frames[1])
    /\ frames[1].err = ErrAddLiquidity
    /\ StoredNonce(World, TargetOf(frames[1]), TokenOf(frames[1])) = <<1>>
    /\ <<TargetOf(frames[1]), keyPrefix \o TokenOf(frames[1]), <<2>>>> \in DOMAIN units

(***************************************************************************)
(* C17: concurrent calls share no mutable memory of the handler other than *)
(* the cost table: in every interleaving the token key a call passes to    *)
(* SaveDCTNFTToken and to AddToLiquiditySystemAcc, and the nonce key it    *)
(* reads and writes, are the fixed prefix followed by the call's own       *)
(* argument 0, and keyPrefix and noncePrefix keep their contents.          *)
(***************************************************************************)
C17_KeysAreOwnAndPrefixesKept ==
    /\ SubSeq(keyPrefixArray, 1, Len(keyPrefix)) = keyPrefix
    /\ SubSeq(noncePrefixArray, 1, Len(noncePrefix)) = noncePrefix
    /\ \A p \in Procs :
           LET f == frames[p]
           IN  f.pc # "idle" =>
                 /\ \A i \in OpsAt(f, {"SaveDCTNFTToken", "AddToLiquiditySystemAcc"}) :
                        f.ops[i].key = keyPrefix \o TokenOf(f)
                 /\ \A i \in OpsAt(f, {"RetrieveValue", "SaveKeyValue"}) :
                        f.ops[i].key = getNonceKey(TokenOf(f))

(***************************************************************************)
(* C18: when calls on the same resolved account and token run concurrently *)
(* under the shared read lock, every successful call returns a nonce that  *)
(* no other successful call on that account and token returned, and after  *)
(* all of them have finished the stored nonce is the prior nonce plus the  *)
(* number of successful calls.                                             *)
(***************************************************************************)
\* The number of activations that returned with success.
SuccessfulCalls == Cardinality({p \in Procs : Succeeded(frames[p])})

C18_ConcurrentNoncesUnique ==
    LET f == frames[1]
        g == frames[2]
    IN  ( /\ Returned(f) /\ Returned(g)
          /\ TargetOf(f) = TargetOf(g) /\ TokenOf(f) = TokenOf(g) ) =>
            /\ (Succeeded(f) /\ Succeeded(g)) => f.vmOutput.ReturnData # g.vmOutput.ReturnData
            /\ StoredNonce(World, TargetOf(f), TokenOf(f)) = NatBytes(SuccessfulCalls)

(***************************************************************************)
(* C19: ProcessBuiltinFunction releases its read lock on every return      *)
(* path, success or error, so under fair scheduling a SetNewGasConfig call *)
(* made while calls are in flight eventually takes the write lock and      *)
(* completes; no call is executing while the write lock is held; and every *)
(* call that starts after SetNewGasConfig returned computes its gas from   *)
(* the new cost table.                                                     *)
(***************************************************************************)
\* The activations between their RLock and their RUnlock.
Executing == {p \in Procs : frames[p].pc \notin {"idle", "RLock", "done"}}

\* The call entered when the replacement by gc had been written.
EnteredUnder(f, gc) ==
    /\ f.pc # "idle"
    /\ f.pre.funcGasCost = gc.DCTNFTCreate
    /\ f.pre.gasConfig.StorePerByte = gc.StorePerByte

C19_LockDiscipline ==
    /\ mutExecution.readers = Cardinality(Executing)
    /\ mutExecution.writer => Executing = {}
    /\ \A p \in Procs :
           LET f == frames[p]
           IN  EnteredUnder(f, TableB) =>
                 /\ f.checkedBase \in {<<>>, TableB.DCTNFTCreate}
                 /\ f.pc \notin {"RLock", "checkInput"} =>
                        f.checkedBase = TableB.DCTNFTCreate
                 /\ f.gasToUse # <<>> =>
                        /\ f.readBase = TableB.DCTNFTCreate
                        /\ f.readPerByte = TableB.StorePerByte
                        /\ f.gasToUse = ExactCost(f.vmInput.Arguments, TableB.StorePerByte,
                                                  TableB.DCTNFTCreate)

C19_LockReleasedSetterCompletes ==
    /\ []C19_LockDiscipline
    /\ (setter.pc \notin {"idle", "done"}) ~> (setter.pc = "done")

\* The replacement completed around a call that entered under the first
\* table and returned an error under the second; the next call entered after
\* it and succeeded under the second table.
C19_Witness ==
    /\ setter.pc = "done" /\ ~setter.gasCost.isNil
    /\ mutExecution.readers = 0
    /\ Failed(frames[1])
    /\ frames[1].pre.funcGasCost = TableA.DCTNFTCreate
    /\ frames[1].checkedBase = TableB.DCTNFTCreate
    /\ EnteredUnder(frames[2], TableB)
    /\ Succeeded(frames[2])

(***************************************************************************)
(* C20: on every successful call GasRemaining <= GasProvided: the          *)
(* subtraction GasProvided - gasToUse never goes below 0 in the unsigned   *)
(* 64-bit range, for every argument list, cost table and gas amount.       *)
(***************************************************************************)
C20_GasRemainingAtMostProvided ==
    \A p \in Procs :
        LET f == frames[p]
        IN  Succeeded(f) =>
              /\ CmpB(f.vmOutput.GasRemaining, Norm(f.vmInput.GasProvided)) <= 0
              /\ CmpB(f.gasToUse, Norm(f.vmInput.GasProvided)) <= 0
              /\ AddB(f.vmOutput.GasRemaining, f.gasToUse) = Norm(f.vmInput.GasProvided)

\* A successful call under the table whose per-byte cost is 2^63: the cost
\* computed in 64 bits is below the gas provided, the exact cost above it.
C20_Witness ==
    /\ Succeeded(frames[1])
    /\ frames[1].readPerByte = TableHuge.StorePerByte
    /\ CmpB(ExactCost(frames[1].vmInput.Arguments, frames[1].readPerByte,
                      frames[1].readBase),
            frames[1].vmInput.GasProvided) > 0
    /\ CmpB(frames[1].vmOutput.GasRemaining, frames[1].vmInput.GasProvided) <= 0

====
